---- MODULE Spec2Model ----
(***************************************************************************)
(* The workflow engine of the Agent Orchestrator Service                   *)
(* (src/microservices/agent-orchestrator/main.py): the in-memory store     *)
(* `workflows` / `agent_results`, the request handlers create, pause and   *)
(* resume, and the background coroutine execute_workflow.                  *)
(*                                                                         *)
(* Python dicts are passed by reference.  The workflow dicts therefore     *)
(* live in `heap`, and `workflows` and every running execute_workflow      *)
(* hold an index into it: a second create with the same id rebinds the     *)
(* key to a fresh dict while a pass started earlier still holds the old    *)
(* one.  A coroutine runs without interruption between two awaits; the     *)
(* only await of execute_workflow that suspends is the HTTP call inside    *)
(* execute_agent_task, so one action is the code from one suspension to    *)
(* the next.  Timestamps are abstracted to set / not set, the executor's   *)
(* response text to one token, and progress (a float percentage) to        *)
(* thousandths of a percent.                                               *)
(*                                                                         *)
(* The request counters of the API Gateway                                 *)
(* (src/microservices/api-gateway/main.py): the dict `request_stats` and   *)
(* the calls of request_logging_middleware.  The gateway is a process of   *)
(* its own; its specification leaves the orchestrator's state alone, and   *)
(* the orchestrator's specifications leave the counters alone.             *)
(***************************************************************************)
EXTENDS Integers, Sequences, FiniteSets, TLC

\* ------------------------------------------------------------ bounds
\* execute_workflow passes launched in one behaviour (by create or resume)
MaxPasses == 2

\* create_workflow requests in one behaviour of the specification in which
\* callers reuse ids
MaxCreates == 3

\* requests the gateway receives in one behaviour
MaxRequests == 4

WorkflowIds == {"w1", "w2"}

\* ------------------------------------------------------------ values
PENDING == "pending"
IN_PROGRESS == "in_progress"
COMPLETED == "completed"
FAILED == "failed"
PAUSED == "paused"
WorkflowStatus == {PENDING, IN_PROGRESS, COMPLETED, FAILED, PAUSED}

\* Python's None, for the string- and datetime-valued fields
None == "None"
\* a value of datetime.now()
Now == "now"
\* Optional[str] error_message: None is the empty tuple, a message its words
NoMessage == <<>>

Range(s) == {s[k] : k \in DOMAIN s}

AgentTask(agent_type, dependencies, priority) ==
    [agent_type |-> agent_type, task |-> "task", context |-> <<>>,
     dependencies |-> dependencies, priority |-> priority]

\* the task lists create_workflow is called with
ChainTasks ==
    << AgentTask("pm", <<>>, 5), AgentTask("ba", <<"pm">>, 4),
       AgentTask("dev", <<"ba">>, 3) >>
\* dev depends on ba, which is no task of the list
SkipTasks == << AgentTask("pm", <<>>, 5), AgentTask("dev", <<"ba">>, 3) >>
\* two tasks without dependencies
IndependentTasks == << AgentTask("pm", <<>>, 5), AgentTask("qa", <<>>, 1) >>
\* two tasks of one role
DuplicateTasks == << AgentTask("pm", <<>>, 5), AgentTask("pm", <<>>, 1) >>
\* ba has a higher priority than qa and one dependency, qa has none; dev
\* depends on ux, which is no task of the list; the list is sent in an
\* order that is not the sorted one
InversionTasks ==
    << AgentTask("ba", <<"pm">>, 8), AgentTask("dev", <<"ux">>, 9),
       AgentTask("qa", <<>>, 1), AgentTask("pm", <<>>, 5) >>
\* one task
SingleTask == << AgentTask("pm", <<>>, 5) >>
\* qa and pm are equal in the number of dependencies and in priority, ba
\* and dev too; ba depends on dev, which is sorted behind it
TieTasks ==
    << AgentTask("ba", <<"dev">>, 3), AgentTask("qa", <<>>, 5),
       AgentTask("dev", <<"qa">>, 3), AgentTask("pm", <<>>, 5) >>
\* sdlc_tasks of create_sdlc_workflow
SdlcRoles ==
    << "product_manager", "business_analyst", "software_developer",
       "qa_engineer", "devops_engineer" >>
SdlcTasks ==
    << [AgentTask("product_manager", <<>>, 5)
            EXCEPT !.context = [k \in {"project_name", "requirements"} |-> "text"]],
       [AgentTask("business_analyst", <<"product_manager">>, 4)
            EXCEPT !.context = [k \in {"project_name"} |-> "text"]],
       [AgentTask("software_developer", <<"business_analyst">>, 3)
            EXCEPT !.context = [k \in {"project_name"} |-> "text"]],
       [AgentTask("qa_engineer", <<"software_developer">>, 2)
            EXCEPT !.context = [k \in {"project_name"} |-> "text"]],
       [AgentTask("devops_engineer", <<"software_developer">>, 1)
            EXCEPT !.context = [k \in {"project_name"} |-> "text"]] >>
TaskLists == {SkipTasks, IndependentTasks}

\* ------------------------------------------------------------ state
VARIABLES
    heap,           \* the workflow dicts ever built, by reference
    workflows,      \* the dict workflows: ordered entries key -> reference
    agent_results,  \* the dict agent_results: key -> list of AgentResult
    runners,        \* the background execute_workflow calls ever added
    request_stats,  \* the gateway's dict request_stats
    middleware_calls  \* the gateway's calls of request_logging_middleware

orchestrator_vars == <<heap, workflows, agent_results, runners>>
gateway_vars == <<request_stats, middleware_calls>>
vars ==
    <<heap, workflows, agent_results, runners, request_stats, middleware_calls>>

\* ------------------------------------------------------------ dict helpers
Keys(d) == {d[k].key : k \in DOMAIN d}
Ref(d, key) == d[CHOOSE k \in DOMAIN d : d[k].key = key].ref
\* d[key] = ref: an existing key keeps its position, a new one goes last
Put(d, key, ref) ==
    IF key \in Keys(d)
    THEN [k \in DOMAIN d |-> IF d[k].key = key THEN [key |-> key, ref |-> ref] ELSE d[k]]
    ELSE Append(d, [key |-> key, ref |-> ref])

\* the record the store holds for an id
Workflow(id) == heap[Ref(workflows, id)]

\* (n / d) * 100 as thousandths of a percent
Percent(n, d) == (n * 100000) \div d

\* ------------------------------------------------------------ sorting
\* mutant: the same key, sorted in descending order
KeyGreater(a, b) ==
    \/ Len(a.dependencies) > Len(b.dependencies)
    \/ /\ Len(a.dependencies) = Len(b.dependencies)
       /\ (0 - a.priority) > (0 - b.priority)

\* mutant: the priority without its minus sign
KeyAscendingPriority(a, b) ==
    \/ Len(a.dependencies) < Len(b.dependencies)
    \/ /\ Len(a.dependencies) = Len(b.dependencies)
       /\ a.priority < b.priority

\* key=lambda x: (len(x["dependencies"]), -x["priority"]), compared as tuples
KeyLess(a, b) ==
    \/ Len(a.dependencies) < Len(b.dependencies)
    \/ /\ Len(a.dependencies) = Len(b.dependencies)
       /\ (0 - a.priority) < (0 - b.priority)

\* mutant: no sorting, the tasks stay in the order of the request
InsertLast(tasks, sorted, t) == Append(sorted, t)

RECURSIVE InsertUnstable(_, _, _)
\* mutant: insert index t before the elements of equal key
InsertUnstable(tasks, sorted, t) ==
    IF sorted = <<>> THEN <<t>>
    ELSE IF ~KeyLess(tasks[Head(sorted)], tasks[t])
         THEN <<t>> \o sorted
         ELSE <<Head(sorted)>> \o InsertUnstable(tasks, Tail(sorted), t)

RECURSIVE Insert(_, _, _)
\* insert index t behind every element whose key is not greater (stable)
Insert(tasks, sorted, t) ==
    IF sorted = <<>> THEN <<t>>
    ELSE IF KeyLess(tasks[t], tasks[Head(sorted)])
         THEN <<t>> \o sorted
         ELSE <<Head(sorted)>> \o Insert(tasks, Tail(sorted), t)

RECURSIVE SortFrom(_, _, _)
SortFrom(tasks, sorted, t) ==
    IF t > Len(tasks) THEN sorted
    ELSE SortFrom(tasks, Insert(tasks, sorted, t), t + 1)

\* sorted(tasks, key=...): the positions of tasks in sorted order
SortedTasks(tasks) == SortFrom(tasks, <<>>, 1)

\* ------------------------------------------------------------ handlers
\* mutant: the record is created with the status execute_workflow gives it
NewWorkflowStarted(workflow_id, tasks) ==
    [workflow_id |-> workflow_id, tasks |-> tasks, status |-> IN_PROGRESS,
     started_at |-> Now, completed_at |-> None, progress |-> Percent(0, 1),
     results |-> <<>>, error_message |-> NoMessage]

NewWorkflow(workflow_id, tasks) ==
    [workflow_id |-> workflow_id, tasks |-> tasks, status |-> PENDING,
     started_at |-> Now, completed_at |-> None, progress |-> Percent(0, 1),
     results |-> <<>>, error_message |-> NoMessage]

NewRunner(workflow_id) ==
    [workflow_id |-> workflow_id, pc |-> "scheduled", workflow |-> 0,
     sorted_tasks |-> <<>>, i |-> 0, completed_tasks |-> <<>>, request |-> <<>>]

\* request.workflow_id or str(uuid.uuid4()): a generated id is one the store
\* does not hold
NewIds(requested) ==
    IF requested = None THEN WorkflowIds \ Keys(workflows) ELSE {requested}

\* WorkflowResponse(**workflow): the fields of the response model
WorkflowResponse(workflow) ==
    [workflow_id |-> workflow.workflow_id, status |-> workflow.status,
     results |-> workflow.results, progress |-> workflow.progress,
     started_at |-> workflow.started_at, completed_at |-> workflow.completed_at,
     error_message |-> workflow.error_message]

CreateWorkflow(requested, tasks) ==
    \E workflow_id \in NewIds(requested) :
        /\ heap' = Append(heap, NewWorkflow(workflow_id, tasks))
        /\ workflows' = Put(workflows, workflow_id, Len(heap) + 1)
        /\ agent_results' = (workflow_id :> <<>>) @@ agent_results
        /\ runners' = Append(runners, NewRunner(workflow_id))

\* mutant: the membership test of line 138 left out, the lookup raises
GetStatusUnchecked(workflow_id) ==
    IF workflow_id \notin Keys(workflows) THEN 500 ELSE 200

\* create_sdlc_workflow: create_workflow with sdlc_tasks and no workflow_id
CreateSdlcWorkflow == CreateWorkflow(None, SdlcTasks)

\* the HTTP status of get_workflow_status
GetStatus(workflow_id) ==
    IF workflow_id \notin Keys(workflows) THEN 404 ELSE 200

\* get_workflow_status reads workflows and writes nothing
GetWorkflowStatus(workflow_id) == UNCHANGED vars

\* the HTTP status of get_workflow_results
ResultsStatus(workflow_id) ==
    IF workflow_id \notin Keys(workflows) THEN 404 ELSE 200

\* get_workflow_results reads workflows and agent_results and writes nothing
GetWorkflowResults(workflow_id) == UNCHANGED vars

\* the "workflows" list of list_workflows: one summary per value of the
\* dict, in the order of its keys
ListResponse ==
    [k \in DOMAIN workflows |->
        [workflow_id |-> heap[workflows[k].ref].workflow_id,
         status |-> heap[workflows[k].ref].status,
         progress |-> heap[workflows[k].ref].progress,
         started_at |-> heap[workflows[k].ref].started_at]]

\* list_workflows reads workflows and writes nothing
ListWorkflows == UNCHANGED vars

\* the HTTP status the handler answers with, decided on the state it finds
PauseStatus(workflow_id) ==
    IF workflow_id \notin Keys(workflows) THEN 404 ELSE 200

\* mutant: pause also clears the error message
PauseClearingMessage(workflow_id) ==
    IF PauseStatus(workflow_id) # 200
    THEN UNCHANGED vars
    ELSE /\ heap' = [heap EXCEPT ![Ref(workflows, workflow_id)].status = PAUSED,
                                 ![Ref(workflows, workflow_id)].error_message = NoMessage]
         /\ UNCHANGED <<workflows, agent_results, runners>>

PauseWorkflow(workflow_id) ==
    IF PauseStatus(workflow_id) # 200
    THEN UNCHANGED vars
    ELSE /\ heap' = [heap EXCEPT ![Ref(workflows, workflow_id)].status = PAUSED]
         /\ UNCHANGED <<workflows, agent_results, runners>>

\* mutant: the status check of line 175 left out
ResumeStatusUnchecked(workflow_id) ==
    IF workflow_id \notin Keys(workflows) THEN 404 ELSE 200

ResumeStatus(workflow_id) ==
    IF workflow_id \notin Keys(workflows) THEN 404
    ELSE IF Workflow(workflow_id).status # PAUSED THEN 400
    ELSE 200

\* mutant: line 179 left out, the status is set and no pass is added
ResumeWithoutTask(workflow_id) ==
    IF ResumeStatus(workflow_id) # 200
    THEN UNCHANGED vars
    ELSE /\ heap' = [heap EXCEPT ![Ref(workflows, workflow_id)].status = IN_PROGRESS]
         /\ UNCHANGED <<workflows, agent_results, runners>>

ResumeWorkflow(workflow_id) ==
    IF ResumeStatus(workflow_id) # 200
    THEN UNCHANGED vars
    ELSE /\ heap' = [heap EXCEPT ![Ref(workflows, workflow_id)].status = IN_PROGRESS]
         /\ runners' = Append(runners, NewRunner(workflow_id))
         /\ UNCHANGED <<workflows, agent_results>>

\* ------------------------------------------------------------ the runner
\* mutant: the dependency check of line 223 left out
DependenciesIgnored(task, completed_tasks) == TRUE

\* mutant: any() in the place of all()
DependenciesAnyMet(task, completed_tasks) ==
    \E dep \in Range(task.dependencies) : dep \in Range(completed_tasks)

\* all(dep in completed_tasks for dep in task["dependencies"])
DependenciesMet(task, completed_tasks) ==
    \A dep \in Range(task.dependencies) : dep \in Range(completed_tasks)

\* mutant: the loop without the pause check of lines 218-220
NextStopUnpaused(status, tasks, sorted_tasks, completed_tasks, k) ==
    IF \E j \in k..Len(sorted_tasks) :
            DependenciesMet(tasks[sorted_tasks[j]], completed_tasks)
    THEN [stop |-> "dispatch",
          at |-> CHOOSE j \in k..Len(sorted_tasks) :
                    /\ DependenciesMet(tasks[sorted_tasks[j]], completed_tasks)
                    /\ \A h \in k..(j - 1) :
                            ~DependenciesMet(tasks[sorted_tasks[h]], completed_tasks)]
    ELSE [stop |-> "exhausted", at |-> Len(sorted_tasks) + 1]

\* mutant: a task passed over is taken up again once it has become eligible
NextStopRescan(status, tasks, sorted_tasks, completed_tasks, k) ==
    LET waiting == {j \in DOMAIN sorted_tasks :
                        /\ tasks[sorted_tasks[j]].agent_type \notin Range(completed_tasks)
                        /\ DependenciesMet(tasks[sorted_tasks[j]], completed_tasks)}
    IN  IF waiting = {} THEN [stop |-> "exhausted", at |-> Len(sorted_tasks) + 1]
        ELSE IF status = PAUSED THEN [stop |-> "paused", at |-> k]
        ELSE [stop |-> "dispatch",
              at |-> CHOOSE j \in waiting : \A h \in waiting : j <= h]

RECURSIVE NextStopPauseFirst(_, _, _, _, _)
\* mutant: the pause check also after the last task, before lines 253-255
NextStopPauseFirst(status, tasks, sorted_tasks, completed_tasks, k) ==
    IF status = PAUSED THEN [stop |-> "paused", at |-> k]
    ELSE IF k > Len(sorted_tasks) THEN [stop |-> "exhausted", at |-> k]
    ELSE IF ~DependenciesMet(tasks[sorted_tasks[k]], completed_tasks)
         THEN NextStopPauseFirst(status, tasks, sorted_tasks, completed_tasks, k + 1)
         ELSE [stop |-> "dispatch", at |-> k]

RECURSIVE NextStop(_, _, _, _, _)
\* The for loop from position k (1-based) of sorted_tasks, up to the point
\* where the coroutine leaves it: the pause check returns, an eligible task
\* is handed to execute_agent_task, or the list is exhausted.
NextStop(status, tasks, sorted_tasks, completed_tasks, k) ==
    IF k > Len(sorted_tasks) THEN [stop |-> "exhausted", at |-> k]
    ELSE IF status = PAUSED THEN [stop |-> "paused", at |-> k]
    ELSE IF ~DependenciesMet(tasks[sorted_tasks[k]], completed_tasks)
         THEN NextStop(status, tasks, sorted_tasks, completed_tasks, k + 1)
         ELSE [stop |-> "dispatch", at |-> k]

\* mutant: the context carries the results of every workflow
RequestDataShared(task, previous_results) ==
    [agent_type |-> task.agent_type, task |-> task.task,
     context |-> ("previous_results" :>
                    [r \in UNION {DOMAIN heap[w].results : w \in DOMAIN heap}
                        |-> [response |-> "response"]]) @@ task.context,
     max_tokens |-> 500, temperature |-> "0.7"]

\* request_data of execute_agent_task, as serialised for the POST: the
\* context carries the results of the record the store holds at that moment
RequestData(task, previous_results) ==
    [agent_type |-> task.agent_type, task |-> task.task,
     context |-> ("previous_results" :> previous_results) @@ task.context,
     max_tokens |-> 500, temperature |-> "0.7"]

\* context["previous_results"] = workflows[workflow_id]["results"]: the
\* task's own context dict now refers to the results dict of record `cur`
InjectContext(task, cur) ==
    [task EXCEPT !.context = ("previous_results" :> cur) @@ task.context]

\* Runner p, holding record w, goes on with the loop at position k; hp is
\* the heap as the code before the loop position has left it.
RunLoop(p, hp, rn, k) ==
    LET w == rn.workflow
        s == NextStop(hp[w].status, hp[w].tasks, rn.sorted_tasks,
                      rn.completed_tasks, k)
        t == rn.sorted_tasks[s.at]
        cur == Ref(workflows, rn.workflow_id)
    IN  CASE s.stop = "paused" ->
                /\ heap' = hp
                /\ runners' = [runners EXCEPT ![p] = [rn EXCEPT !.pc = "paused",
                                                        !.i = s.at]]
          [] s.stop = "dispatch" ->
                /\ heap' = [hp EXCEPT ![w].tasks[t] = InjectContext(@, cur)]
                /\ runners' = [runners EXCEPT ![p] =
                        [rn EXCEPT !.pc = "awaiting", !.i = s.at,
                            !.request = <<RequestData(hp[w].tasks[t], hp[cur].results)>>]]
          [] s.stop = "exhausted" ->
                /\ heap' = [hp EXCEPT ![w].status = COMPLETED,
                                      ![w].completed_at = Now,
                                      ![w].progress = Percent(100, 100)]
                /\ runners' = [runners EXCEPT ![p] = [rn EXCEPT !.pc = "completed",
                                                        !.i = s.at]]

\* mutant: tasks.sort(key=...) in the place of sorted(tasks, key=...)
StartWorkflowSortingInPlace(p) ==
    /\ runners[p].pc = "scheduled"
    /\ LET w == Ref(workflows, runners[p].workflow_id)
           order == SortedTasks(heap[w].tasks)
           rn == [runners[p] EXCEPT !.workflow = w,
                                    !.sorted_tasks = [k \in DOMAIN order |-> k],
                                    !.completed_tasks = <<>>]
       IN  RunLoop(p, [heap EXCEPT ![w].status = IN_PROGRESS,
                                   ![w].tasks = [k \in DOMAIN order |-> heap[w].tasks[order[k]]]],
                   rn, 1)
    /\ UNCHANGED <<workflows, agent_results>>

\* execute_workflow from its first line to its first suspension
StartWorkflow(p) ==
    /\ runners[p].pc = "scheduled"
    /\ LET w == Ref(workflows, runners[p].workflow_id)
           rn == [runners[p] EXCEPT !.workflow = w,
                                    !.sorted_tasks = SortedTasks(heap[w].tasks),
                                    !.completed_tasks = <<>>]
       IN  RunLoop(p, [heap EXCEPT ![w].status = IN_PROGRESS], rn, 1)
    /\ UNCHANGED <<workflows, agent_results>>

AgentResult(agent_type) ==
    [agent_type |-> agent_type, response |-> "response", status |-> "completed"]

\* execute_agent_task returns an AgentResult: lines 230-242, then the loop
TaskSucceeds(p) ==
    /\ runners[p].pc = "awaiting"
    /\ LET rn == runners[p]
           w == rn.workflow
           task == heap[w].tasks[rn.sorted_tasks[rn.i]]
           result == AgentResult(task.agent_type)
           hp == [heap EXCEPT
                    ![w].progress = Percent(rn.i, Len(heap[w].tasks)),
                    ![w].results = (task.agent_type :>
                        [response |-> result.response]) @@ @]
       IN  /\ agent_results' = [agent_results EXCEPT
                                    ![rn.workflow_id] = Append(@, result)]
           /\ RunLoop(p, hp,
                      [rn EXCEPT !.request = <<>>,
                                 !.completed_tasks = Append(@, task.agent_type)],
                      rn.i + 1)
    /\ UNCHANGED workflows

\* mutant: the except branch without its return, the loop goes on
TaskFailsAndContinues(p) ==
    /\ runners[p].pc = "awaiting"
    /\ LET rn == runners[p]
           w == rn.workflow
           task == heap[w].tasks[rn.sorted_tasks[rn.i]]
       IN  RunLoop(p,
                   [heap EXCEPT
                        ![w].status = FAILED,
                        ![w].error_message = <<"Task", task.agent_type, "failed">>],
                   [rn EXCEPT !.request = <<>>], rn.i + 1)
    /\ UNCHANGED <<workflows, agent_results>>

\* execute_agent_task raises: lines 246-250
TaskFails(p) ==
    /\ runners[p].pc = "awaiting"
    /\ LET rn == runners[p]
           w == rn.workflow
           task == heap[w].tasks[rn.sorted_tasks[rn.i]]
       IN  /\ heap' = [heap EXCEPT
                        ![w].status = FAILED,
                        ![w].error_message = <<"Task", task.agent_type, "failed">>]
           /\ runners' = [runners EXCEPT ![p] = [rn EXCEPT !.pc = "failed",
                                                          !.request = <<>>]]
    /\ UNCHANGED <<workflows, agent_results>>

\* ------------------------------------------------------------ API gateway
\* the time.time() differences a call can measure, in seconds
ProcessTimes == {0, 1}

\* average_response_time * 0.9 + process_time * 0.1, on the exact value
\* num / 10^exp
AverageResponseTime(average, process_time) ==
    [num |-> 9 * average.num + process_time * 10^average.exp,
     exp |-> average.exp + 1]

\* request_logging_middleware up to `await call_next(request)`
ReceiveRequest ==
    /\ request_stats' = [request_stats EXCEPT !.total_requests = @ + 1]
    /\ middleware_calls' =
            Append(middleware_calls, [pc |-> "call_next", status_code |-> None])
    /\ UNCHANGED orchestrator_vars

\* call_next hands over the only counter of the try block
CallNextReturnsCountingBoth(r, status_code, process_time) ==
    /\ middleware_calls[r].pc = "call_next"
    /\ request_stats' =
            [request_stats EXCEPT
                !.successful_requests = @ + 1,
                !.failed_requests = @ + (IF status_code >= 500 THEN 1 ELSE 0),
                !.average_response_time =
                    AverageResponseTime(@, process_time)]
    /\ middleware_calls' = [middleware_calls EXCEPT
                        ![r] = [pc |-> "returned", status_code |-> status_code]]
    /\ UNCHANGED orchestrator_vars

\* call_next returns the response of the route, or the response an
\* exception handler made of an HTTPException: lines 110-122
CallNextReturns(r, status_code, process_time) ==
    /\ middleware_calls[r].pc = "call_next"
    /\ request_stats' =
            [request_stats EXCEPT
                !.successful_requests = @ + 1,
                !.average_response_time =
                    AverageResponseTime(@, process_time)]
    /\ middleware_calls' = [middleware_calls EXCEPT
                        ![r] = [pc |-> "returned", status_code |-> status_code]]
    /\ UNCHANGED orchestrator_vars

\* call_next raises an exception no handler took: lines 124-130
CallNextRaises(r) ==
    /\ middleware_calls[r].pc = "call_next"
    /\ request_stats' = [request_stats EXCEPT !.failed_requests = @ + 1]
    /\ middleware_calls' = [middleware_calls EXCEPT
                        ![r] = [pc |-> "raised", status_code |-> 500]]
    /\ UNCHANGED orchestrator_vars

\* the status codes of the responses the routes return
StatusCodes == {200, 503}

NextGateway ==
    \/ Len(middleware_calls) < MaxRequests /\ ReceiveRequest
    \/ \E r \in DOMAIN middleware_calls, status_code \in StatusCodes,
           process_time \in ProcessTimes :
            CallNextReturns(r, status_code, process_time)
    \/ \E r \in DOMAIN middleware_calls : CallNextRaises(r)

\* ------------------------------------------------------------ specifications
Init ==
    /\ heap = <<>>
    /\ workflows = <<>>
    /\ agent_results = <<>>
    /\ runners = <<>>
    /\ request_stats = [total_requests |-> 0, successful_requests |-> 0,
                        failed_requests |-> 0,
                        average_response_time |-> [num |-> 0, exp |-> 0]]
    /\ middleware_calls = <<>>

\* the requests and coroutine steps, for the workflow ids and task lists
\* callers send to create_workflow; a request that adds an execute_workflow
\* call is made while fewer than `limit` calls have been added
Step(requests, lists, limit) ==
    \/ \E requested \in requests, tasks \in lists :
            /\ Len(runners) < limit /\ CreateWorkflow(requested, tasks)
            /\ UNCHANGED gateway_vars
    \/ ListWorkflows
    \/ \E workflow_id \in WorkflowIds : GetWorkflowStatus(workflow_id)
    \/ \E workflow_id \in WorkflowIds : GetWorkflowResults(workflow_id)
    \/ \E workflow_id \in WorkflowIds :
            PauseWorkflow(workflow_id) /\ UNCHANGED gateway_vars
    \/ \E workflow_id \in WorkflowIds :
            /\ ResumeStatus(workflow_id) = 200 => Len(runners) < limit
            /\ ResumeWorkflow(workflow_id)
            /\ UNCHANGED gateway_vars
    \/ \E p \in DOMAIN runners : StartWorkflow(p) /\ UNCHANGED gateway_vars
    \/ \E p \in DOMAIN runners : TaskSucceeds(p) /\ UNCHANGED gateway_vars
    \/ \E p \in DOMAIN runners : TaskFails(p) /\ UNCHANGED gateway_vars

Next == Step(WorkflowIds \cup {None}, TaskLists, MaxPasses)

Spec == Init /\ [][Next]_vars

\* callers that leave the id to create_workflow (no id is used twice) and
\* send the three-task chain pm -> ba -> dev
NextChain == Step({None}, {ChainTasks}, MaxPasses)

SpecChain == Init /\ [][NextChain]_vars

\* Workflows with a task that depends on a role no task has, under every
\* request; the event loop runs every scheduled pass, and every executor
\* call returns or raises (the client's timeout, line 288)
NextSkip == Step(WorkflowIds \cup {None}, {SkipTasks}, MaxPasses)

SpecSkip ==
    /\ Init /\ [][NextSkip]_vars
    /\ WF_vars(\E p \in DOMAIN runners :
                    StartWorkflow(p) /\ UNCHANGED gateway_vars)
    /\ WF_vars(\E p \in DOMAIN runners :
                    (TaskSucceeds(p) \/ TaskFails(p)) /\ UNCHANGED gateway_vars)

\* callers that send two tasks of the same role, ids left to create_workflow
NextDuplicate == Step({None}, {DuplicateTasks}, MaxPasses)

SpecDuplicate == Init /\ [][NextDuplicate]_vars

\* callers that send a high-priority task behind a dependency
NextInversion == Step({None}, {InversionTasks}, MaxPasses)

SpecInversion == Init /\ [][NextInversion]_vars

\* callers that choose the ids themselves and use them again
NextReuse == Step(WorkflowIds, {SingleTask}, MaxCreates)

SpecReuse == Init /\ [][NextReuse]_vars

\* callers that send tasks with equal sort keys, or tasks out of sorted order
NextTie == Step({None}, {TieTasks, InversionTasks}, MaxPasses)

SpecTie == Init /\ [][NextTie]_vars

\* callers that always supply the workflow id and send a chain of
\* dependent tasks
NextRecreate == Step(WorkflowIds, {ChainTasks}, MaxPasses)

SpecRecreate == Init /\ [][NextRecreate]_vars

\* the gateway under concurrent requests
SpecGateway == Init /\ [][NextGateway]_vars

\* callers that create workflows with POST /workflow/sdlc only, may pause
\* them and never resume: every workflow is run by one pass
NextSdlc ==
    \/ /\ Len(runners) < MaxPasses /\ CreateSdlcWorkflow
       /\ UNCHANGED gateway_vars
    \/ \E workflow_id \in WorkflowIds :
            PauseWorkflow(workflow_id) /\ UNCHANGED gateway_vars
    \/ \E p \in DOMAIN runners : StartWorkflow(p) /\ UNCHANGED gateway_vars
    \/ \E p \in DOMAIN runners : TaskSucceeds(p) /\ UNCHANGED gateway_vars
    \/ \E p \in DOMAIN runners : TaskFails(p) /\ UNCHANGED gateway_vars

SpecSdlc == Init /\ [][NextSdlc]_vars

\* ------------------------------------------------------------ observers
\* a pass that has begun execute_workflow and has not returned from it
Active(p) == runners[p].pc = "awaiting"
ActivePasses(workflow_id) ==
    {p \in DOMAIN runners : runners[p].workflow_id = workflow_id /\ Active(p)}

\* the step hands a task of pass p to the executor
Dispatches(p) == runners'[p].pc = "awaiting" /\ runners'[p] # runners[p]

\* pass p is the only execute_workflow call ever added for its workflow id
SolePass(p) ==
    \A q \in DOMAIN runners :
        runners[q].workflow_id = runners[p].workflow_id => q = p

\* the roles of the tasks of pass p, in the order of its sorted_tasks
SortedRoles(p) ==
    [k \in DOMAIN runners[p].sorted_tasks |->
        heap[runners[p].workflow].tasks[runners[p].sorted_tasks[k]].agent_type]

\* the task of record w with the given role
TaskOf(w, agent_type) ==
    CHOOSE task \in Range(heap[w].tasks) : task.agent_type = agent_type

\* the roles pass p had completed before it handed out its j-th task
CompletedBefore(p, j) ==
    {runners[p].completed_tasks[k] : k \in 1..(j - 1)}

\* the roles of the entries of agent_results[workflow_id], in list order
LogRoles(workflow_id) ==
    [k \in DOMAIN agent_results[workflow_id] |->
        agent_results[workflow_id][k].agent_type]

\* the position in sorted_tasks of pass p of the task with the given role
PositionOf(p, agent_type) ==
    CHOOSE k \in DOMAIN runners[p].sorted_tasks : SortedRoles(p)[k] = agent_type

\* the executor call of pass p returns a result in this step
CallSucceeds(p) ==
    /\ runners[p].pc = "awaiting"
    /\ runners'[p] # runners[p]
    /\ agent_results' # agent_results

\* ------------------------------------------------------------ claims
\* C1: at most one pass of execute_workflow is active for a workflow id at
\* any time, whatever the interleaving of create, pause and resume.
C1_OnePassPerWorkflow ==
    \A workflow_id \in WorkflowIds : Cardinality(ActivePasses(workflow_id)) <= 1

\* C2: the executor is never invoked for a task whose agent_type is already
\* a key of the workflow's results (the request's previous_results are the
\* results at the moment of the call).
C2_NoReExecution ==
    \A p \in DOMAIN runners :
        runners[p].pc = "awaiting" =>
            runners[p].request[1].agent_type
                \notin DOMAIN runners[p].request[1].context["previous_results"]

\* C3: once the status of a workflow is COMPLETED or FAILED, no step changes
\* the status the store shows for that id.
C3_TerminalImmutable ==
    [][\A workflow_id \in Keys(workflows) :
          Workflow(workflow_id).status \in {COMPLETED, FAILED} =>
              heap'[Ref(workflows', workflow_id)].status
                  = Workflow(workflow_id).status]_vars

\* C4: every change of a workflow record's status is one of the five legal
\* transitions.
C4_LegalTransitions ==
    [][\A w \in DOMAIN heap :
          heap'[w].status # heap[w].status =>
              <<heap[w].status, heap'[w].status>> \in
                  { <<PENDING, IN_PROGRESS>>, <<IN_PROGRESS, COMPLETED>>,
                    <<IN_PROGRESS, FAILED>>, <<IN_PROGRESS, PAUSED>>,
                    <<PAUSED, IN_PROGRESS>> }]_vars

\* C5: while the store shows a workflow as PAUSED (Pause was called and no
\* Resume since), no step dispatches an executor call for it.
C5_NoDispatchWhilePaused ==
    [][\A p \in DOMAIN runners :
          Dispatches(p) => Workflow(runners[p].workflow_id).status # PAUSED]_vars

\* C6: no step lowers the progress of a workflow record.
C6_ProgressMonotone ==
    [][\A w \in DOMAIN heap : heap'[w].progress >= heap[w].progress]_vars

\* C7: in every state progress = 100 * (number of roles in results) /
\* (number of tasks).
C7_ProgressIsCompletedShare ==
    \A w \in DOMAIN heap :
        heap[w].progress
            = Percent(Cardinality(DOMAIN heap[w].results), Len(heap[w].tasks))

\* C8: in every state progress is 100 only if the status is COMPLETED.
C8_FullOnlyWhenCompleted ==
    \A w \in DOMAIN heap :
        heap[w].progress = Percent(100, 100) => heap[w].status = COMPLETED

\* the executor call of pass p returns without a result: nothing is appended
\* to the log and the pass leaves its await
CallFails(p) ==
    /\ runners[p].pc = "awaiting"
    /\ runners'[p] # runners[p]
    /\ agent_results' = agent_results

\* C9: when the executor call of a task fails, the status of the pass's
\* workflow becomes FAILED in that step and the pass ends there: it hands no
\* later task to the executor, then or ever after.
C9_FailFast ==
    [][\A p \in DOMAIN runners :
          /\ CallFails(p) =>
                /\ heap'[runners[p].workflow].status = FAILED
                /\ runners'[p].pc = "failed"
                /\ runners'[p].request = <<>>
          /\ runners[p].pc = "failed" => runners'[p] = runners[p]]_vars

\* C9 witness: pm of the two independent tasks has failed, the workflow is
\* FAILED and qa, which sorts later and depends on nothing, was never run
C9_Witness ==
    \E p \in DOMAIN runners :
        /\ runners[p].pc = "failed"
        /\ runners[p].i = 1
        /\ heap[runners[p].workflow].tasks[1].agent_type = "pm"
        /\ heap[runners[p].workflow].tasks[2].dependencies = <<>>
        /\ heap[runners[p].workflow].status = FAILED
        /\ agent_results[runners[p].workflow_id] = <<>>

\* the task pass p waits for
InFlightTask(p) == heap[runners[p].workflow].tasks[runners[p].sorted_tasks[runners[p].i]]

\* record w has seen a Pause or a failed executor call
Disturbed(w) ==
    \/ heap[w].status \in {PAUSED, FAILED}
    \/ \E p \in DOMAIN runners :
            runners[p].workflow = w /\ runners[p].pc \in {"paused", "failed"}

\* C10: a task is handed to the executor only if each of its dependencies
\* was executed earlier in the pass (so never when one of them is a role
\* that is not executed); a status becomes FAILED only in a step in which an
\* executor call fails, never by a skip; and a created workflow reaches
\* COMPLETED unless it sees a Pause or a failed call.
C10_SkipIsNotFatal ==
    /\ [](\A p \in DOMAIN runners :
            runners[p].pc = "awaiting" =>
                \A k \in DOMAIN InFlightTask(p).dependencies :
                    \E j \in DOMAIN runners[p].completed_tasks :
                        runners[p].completed_tasks[j] = InFlightTask(p).dependencies[k])
    /\ [][\A w \in DOMAIN heap :
            (heap[w].status # FAILED /\ heap'[w].status = FAILED) =>
                \E p \in DOMAIN runners : runners[p].workflow = w /\ CallFails(p)]_vars
    /\ \A workflow_id \in WorkflowIds :
            (workflow_id \in Keys(workflows)
                /\ Workflow(workflow_id).status = PENDING) ~>
            (workflow_id \in Keys(workflows)
                /\ \/ Workflow(workflow_id).status = COMPLETED
                   \/ Disturbed(Ref(workflows, workflow_id)))

\* C10 witness: a workflow whose task dev depends on the absent role ba is
\* COMPLETED with pm alone executed
C10_Witness ==
    \E w \in DOMAIN heap :
        /\ heap[w].tasks[2].dependencies = <<"ba">>
        /\ heap[w].status = COMPLETED
        /\ DOMAIN heap[w].results = {"pm"}
        /\ \E p \in DOMAIN runners :
                runners[p].workflow = w /\ runners[p].pc = "completed"

\* C11: Resume on a stored workflow whose status is not PAUSED (PENDING,
\* IN_PROGRESS, COMPLETED or FAILED) is answered with 400 "Workflow is not
\* paused"; it launches no execute_workflow pass and leaves every workflow
\* record, every result log and the store as they were.
C11_ResumeNeedsPaused ==
    /\ [](\A workflow_id \in Keys(workflows) :
            Workflow(workflow_id).status # PAUSED =>
                ResumeStatus(workflow_id) = 400)
    /\ [][\A workflow_id \in Keys(workflows) :
            (Workflow(workflow_id).status # PAUSED /\ ResumeWorkflow(workflow_id))
                => UNCHANGED vars]_vars

\* C11 witness: the store holds a workflow with a call in flight
\* (IN_PROGRESS) and one that has reached COMPLETED or FAILED; Resume is
\* answered with 400 for both
C11_Witness ==
    \E a \in Keys(workflows), b \in Keys(workflows) :
        /\ Workflow(a).status = IN_PROGRESS
        /\ ActivePasses(a) # {}
        /\ Workflow(b).status \in {COMPLETED, FAILED}
        /\ ResumeStatus(a) = 400
        /\ ResumeStatus(b) = 400

\* C12: For the tasks pm (no dependencies, priority 5), ba (depends on pm,
\* priority 4) and dev (depends on ba, priority 3) every pass sorts the tasks
\* into the order pm, ba, dev.  In a workflow run by one pass, when the call
\* for pm has succeeded and the call for ba fails, the status becomes FAILED
\* and stays FAILED unless a later Pause request overwrites it, the keys of
\* results are exactly {pm}, error_message names ba, the pass has returned,
\* and no pass hands dev to the executor unless ba succeeded in it.
C12_ChainFailsAtBa ==
    /\ [](\A p \in DOMAIN runners :
            /\ runners[p].pc # "scheduled" => SortedRoles(p) = <<"pm", "ba", "dev">>
            /\ (runners[p].pc = "awaiting" /\ InFlightTask(p).agent_type = "dev")
                    => runners[p].completed_tasks = <<"pm", "ba">>
            /\ (SolePass(p) /\ runners[p].pc = "failed" /\ runners[p].i = 2)
                    => /\ DOMAIN heap[runners[p].workflow].results = {"pm"}
                       /\ heap[runners[p].workflow].error_message
                            = <<"Task", "ba", "failed">>)
    /\ [][\A p \in DOMAIN runners :
            /\ (SolePass(p) /\ CallFails(p) /\ InFlightTask(p).agent_type = "ba")
                    => /\ heap'[runners[p].workflow].status = FAILED
                       /\ DOMAIN heap'[runners[p].workflow].results = {"pm"}
                       /\ runners'[p].pc = "failed"
                       /\ runners'[p].i = 2
            /\ (SolePass(p) /\ runners[p].pc = "failed"
                    /\ heap[runners[p].workflow].status = FAILED)
                    => \/ heap'[runners[p].workflow].status = FAILED
                       \/ PauseWorkflow(runners[p].workflow_id)]_vars

\* C12 witness: the only pass of a chain workflow has failed at ba, its
\* second task: the status is FAILED, results and the log hold pm alone
C12_Witness ==
    \E p \in DOMAIN runners :
        /\ SolePass(p)
        /\ runners[p].pc = "failed"
        /\ runners[p].i = 2
        /\ SortedRoles(p) = <<"pm", "ba", "dev">>
        /\ heap[runners[p].workflow].status = FAILED
        /\ DOMAIN heap[runners[p].workflow].results = {"pm"}
        /\ heap[runners[p].workflow].error_message = <<"Task", "ba", "failed">>
        /\ Len(agent_results[runners[p].workflow_id]) = 1

\* C13: For the tasks pm, ba, dev, when a pass has stopped at the pause
\* check with pm completed (status PAUSED was seen before ba was handed
\* out), a pass launched later by Resume makes no second executor call for
\* pm: it calls ba and then dev.
C13_ResumeSkipsPm ==
    \A p \in DOMAIN runners :
        ( /\ runners[p].pc = "awaiting"
          /\ \E q \in 1..(p - 1) :
                /\ runners[q].workflow_id = runners[p].workflow_id
                /\ runners[q].pc = "paused"
                /\ runners[q].completed_tasks = <<"pm">> )
            => InFlightTask(p).agent_type # "pm"

\* C14: create_workflow with a supplied id that the store already holds
\* fails: the existing record stays bound to the id, its result log keeps
\* its entries, and no execute_workflow pass is launched.
C14_CreateKeepsExisting ==
    [][\A requested \in Keys(workflows), tasks \in TaskLists :
          CreateWorkflow(requested, tasks) =>
              /\ Ref(workflows', requested) = Ref(workflows, requested)
              /\ agent_results'[requested] = agent_results[requested]
              /\ runners' = runners]_vars

\* C15: create_workflow stores no workflow whose task list has two tasks of
\* the same agent role: the roles of every stored task list are distinct.
C15_RolesUnique ==
    \A w \in DOMAIN heap :
        \A j \in DOMAIN heap[w].tasks, k \in DOMAIN heap[w].tasks :
            j # k => heap[w].tasks[j].agent_type # heap[w].tasks[k].agent_type

\* C16: Among the tasks eligible at the same time the one of higher
\* priority is handed out earlier, whatever the number of dependencies:
\* when a pass hands out a task u, every task e it has executed before, at
\* whose dispatch the dependencies of u were already completed, has a
\* priority at least that of u.
C16_PriorityAmongEligible ==
    \A p \in DOMAIN runners :
        runners[p].pc = "awaiting" =>
            \A j \in DOMAIN runners[p].completed_tasks :
                Range(InFlightTask(p).dependencies) \subseteq CompletedBefore(p, j)
                    => TaskOf(runners[p].workflow,
                              runners[p].completed_tasks[j]).priority
                            >= InFlightTask(p).priority

\* C17: The result log of a workflow is append-only and has exactly one
\* entry per successfully executed task: no step removes or resets entries,
\* no role occurs twice, and in every state the roles in the log are the
\* keys of results of the stored record.
C17_LogAppendOnly ==
    /\ [](\A workflow_id \in Keys(workflows) :
            LET log == agent_results[workflow_id]
            IN  /\ {log[k].agent_type : k \in DOMAIN log}
                        = DOMAIN Workflow(workflow_id).results
                /\ \A j \in DOMAIN log, k \in DOMAIN log :
                        j # k => log[j].agent_type # log[k].agent_type)
    /\ [][\A workflow_id \in DOMAIN agent_results :
            /\ Len(agent_results'[workflow_id]) >= Len(agent_results[workflow_id])
            /\ SubSeq(agent_results'[workflow_id], 1,
                      Len(agent_results[workflow_id]))
                    = agent_results[workflow_id]]_vars

C19_CreateStoresPending ==
    [][\A tasks \in TaskLists :
          CreateWorkflow(None, tasks) =>
              \E workflow_id \in WorkflowIds \ Keys(workflows) :
                  /\ Keys(workflows') = Keys(workflows) \cup {workflow_id}
                  /\ agent_results'[workflow_id] = <<>>
                  /\ LET workflow == heap'[Ref(workflows', workflow_id)]
                     IN  /\ workflow.workflow_id = workflow_id
                         /\ workflow.tasks = tasks
                         /\ workflow.status = PENDING
                         /\ workflow.progress = 0
                         /\ workflow.results = <<>>
                         /\ workflow.error_message = NoMessage
                         /\ workflow.completed_at = None
                         /\ WorkflowResponse(workflow)
                                = [workflow_id |-> workflow_id, status |-> PENDING,
                                   results |-> <<>>, progress |-> 0,
                                   started_at |-> Now, completed_at |-> None,
                                   error_message |-> NoMessage]]_vars

\* C19 witness: a second workflow has just been created under a generated
\* id while the first is being executed; its record is PENDING with
\* progress 0, nothing in results or in the log, and its pass has not begun
C19_Witness ==
    \E workflow_id \in Keys(workflows), other \in Keys(workflows) :
        /\ workflow_id # other
        /\ ActivePasses(other) # {}
        /\ WorkflowResponse(Workflow(workflow_id)).status = PENDING
        /\ WorkflowResponse(Workflow(workflow_id)).progress = 0
        /\ Workflow(workflow_id).results = <<>>
        /\ agent_results[workflow_id] = <<>>
        /\ \A p \in DOMAIN runners :
                runners[p].workflow_id = workflow_id => runners[p].pc = "scheduled"

\* C20: get_workflow_status, get_workflow_results, pause_workflow and
\* resume_workflow called with an id the store does not hold answer 404
\* "Workflow not found"; they create no record, launch no execute_workflow
\* pass and leave every stored workflow and every result log unchanged.
C20_UnknownIdNotFound ==
    /\ [](\A workflow_id \in WorkflowIds \ Keys(workflows) :
            /\ GetStatus(workflow_id) = 404
            /\ ResultsStatus(workflow_id) = 404
            /\ PauseStatus(workflow_id) = 404
            /\ ResumeStatus(workflow_id) = 404)
    /\ [][\A workflow_id \in WorkflowIds \ Keys(workflows) :
            ( \/ GetWorkflowStatus(workflow_id)
              \/ GetWorkflowResults(workflow_id)
              \/ PauseWorkflow(workflow_id)
              \/ ResumeWorkflow(workflow_id) ) => UNCHANGED vars]_vars

\* C20 witness: one workflow is stored and has a call in flight, the other
\* id is unknown to the store and all four handlers answer 404 for it
C20_Witness ==
    \E workflow_id \in WorkflowIds \ Keys(workflows), other \in Keys(workflows) :
        /\ ActivePasses(other) # {}
        /\ Len(agent_results[other]) > 0
        /\ GetStatus(workflow_id) = 404
        /\ ResultsStatus(workflow_id) = 404
        /\ PauseStatus(workflow_id) = 404
        /\ ResumeStatus(workflow_id) = 404

\* C21: list_workflows returns exactly one summary per workflow of the
\* store, in the order in which the stored records were created, and the
\* status and progress of each summary are the current values of the
\* stored record.
C21_ListInCreationOrder ==
    /\ Len(ListResponse) = Cardinality(Keys(workflows))
    /\ \A k \in DOMAIN ListResponse :
            /\ ListResponse[k].workflow_id \in Keys(workflows)
            /\ ListResponse[k].status = Workflow(ListResponse[k].workflow_id).status
            /\ ListResponse[k].progress = Workflow(ListResponse[k].workflow_id).progress
    /\ \A j \in DOMAIN ListResponse, k \in DOMAIN ListResponse :
            j < k => Ref(workflows, ListResponse[j].workflow_id)
                        < Ref(workflows, ListResponse[k].workflow_id)

\* C22: When Pause has been called while an executor call of the workflow
\* is in flight, the call is not interrupted; when it returns a result, the
\* result is recorded in the log, in results and in progress, the workflow
\* has status PAUSED afterwards and the pass has stopped at the pause check,
\* also when the task in flight is the last of the sorted list.
C22_PauseAfterInFlight ==
    [][\A p \in DOMAIN runners :
          (CallSucceeds(p) /\ heap[runners[p].workflow].status = PAUSED) =>
              /\ InFlightTask(p).agent_type
                    \in DOMAIN heap'[runners[p].workflow].results
              /\ Len(agent_results'[runners[p].workflow_id])
                    = Len(agent_results[runners[p].workflow_id]) + 1
              /\ heap'[runners[p].workflow].status = PAUSED
              /\ runners'[p].pc = "paused"]_vars

\* C23: At most one executor call is in flight for a workflow at any time:
\* two execute_workflow passes that both wait for the executor belong to
\* different workflow ids, under every interleaving of create, pause and
\* resume.
C23_OneCallInFlight ==
    \A p \in DOMAIN runners, q \in DOMAIN runners :
        (p # q /\ runners[p].request # <<>> /\ runners[q].request # <<>>)
            => runners[p].workflow_id # runners[q].workflow_id

\* C24: When a pass comes to the top of its loop (after a call has returned
\* a result, with a task still to visit) and the status is PAUSED, it
\* returns at once: it has stopped at the next position with no request
\* made, the status is still PAUSED, tasks, error_message and completed_at
\* are unchanged, results and the log have gained the returned result and
\* nothing else, and the pass never moves again.
C24_PausedPassReturns ==
    [][\A p \in DOMAIN runners :
          LET w == runners[p].workflow
          IN  /\ ( /\ CallSucceeds(p)
                    /\ heap[w].status = PAUSED
                    /\ runners[p].i < Len(runners[p].sorted_tasks) )
                    => /\ runners'[p].pc = "paused"
                       /\ runners'[p].i = runners[p].i + 1
                       /\ runners'[p].request = <<>>
                       /\ heap'[w].status = PAUSED
                       /\ heap'[w].tasks = heap[w].tasks
                       /\ heap'[w].error_message = heap[w].error_message
                       /\ heap'[w].completed_at = heap[w].completed_at
                       /\ heap'[w].progress
                            = Percent(runners[p].i, Len(heap[w].tasks))
                       /\ DOMAIN heap'[w].results
                            = DOMAIN heap[w].results \cup {InFlightTask(p).agent_type}
                       /\ Len(agent_results'[runners[p].workflow_id])
                            = Len(agent_results[runners[p].workflow_id]) + 1
              /\ runners[p].pc = "paused" => runners'[p] = runners[p]]_vars

\* C24 witness: a pass has stopped at the pause check before ba; the
\* workflow is PAUSED with pm in results, no error_message, no completed_at
C24_Witness ==
    \E p \in DOMAIN runners :
        /\ runners[p].pc = "paused"
        /\ runners[p].i = 2
        /\ runners[p].completed_tasks = <<"pm">>
        /\ heap[runners[p].workflow].status = PAUSED
        /\ DOMAIN heap[runners[p].workflow].results = {"pm"}
        /\ heap[runners[p].workflow].error_message = NoMessage
        /\ heap[runners[p].workflow].completed_at = None

\* C25: The sorted_tasks of a pass are the tasks of the workflow, each
\* once, in ascending number of dependencies and, among tasks with the same
\* number of dependencies, in descending priority; tasks equal in both keep
\* the order of the request.  A pass computes the order once and never
\* changes it.
C25_StableSchedule ==
    /\ [](\A p \in DOMAIN runners :
            runners[p].pc # "scheduled" =>
                LET tasks == heap[runners[p].workflow].tasks
                    sorted == runners[p].sorted_tasks
                IN  /\ Len(sorted) = Len(tasks)
                    /\ Range(sorted) = DOMAIN tasks
                    /\ \A j \in DOMAIN sorted, k \in DOMAIN sorted :
                            j < k =>
                                LET a == tasks[sorted[j]]
                                    b == tasks[sorted[k]]
                                IN  \/ Len(a.dependencies) < Len(b.dependencies)
                                    \/ /\ Len(a.dependencies) = Len(b.dependencies)
                                       /\ a.priority > b.priority
                                    \/ /\ Len(a.dependencies) = Len(b.dependencies)
                                       /\ a.priority = b.priority
                                       /\ sorted[j] < sorted[k])
    /\ [][\A p \in DOMAIN runners :
            runners[p].pc # "scheduled" =>
                runners'[p].sorted_tasks = runners[p].sorted_tasks]_vars

\* C25 witness: a pass has sorted the list ba, qa, dev, pm into qa, pm, ba,
\* dev (the pairs of equal key in request order) and has completed tasks
C25_Witness ==
    \E p \in DOMAIN runners :
        /\ SortedRoles(p) = <<"qa", "pm", "ba", "dev">>
        /\ heap[runners[p].workflow].tasks[1].agent_type = "ba"
        /\ Len(runners[p].completed_tasks) >= 2

\* C26: A pass hands a visited task to the executor if and only if, when
\* the loop comes to the task, every role in its dependencies has completed
\* in this pass: of the positions the loop has passed, exactly those are in
\* completed_tasks whose dependencies were completed by earlier positions;
\* the task in flight (or just failed) has all dependencies completed; and
\* no task without dependencies is passed over.
C26_InvokedIffEligible ==
    \A p \in DOMAIN runners :
        runners[p].pc # "scheduled" =>
            LET tasks == heap[runners[p].workflow].tasks
                sorted == runners[p].sorted_tasks
                done == Range(runners[p].completed_tasks)
            IN  /\ \A k \in 1..(runners[p].i - 1) :
                        /\ tasks[sorted[k]].agent_type \in done
                                <=> Range(tasks[sorted[k]].dependencies)
                                        \subseteq {r \in done : PositionOf(p, r) < k}
                        /\ tasks[sorted[k]].dependencies = <<>>
                                => tasks[sorted[k]].agent_type \in done
                /\ runners[p].pc \in {"awaiting", "failed"} =>
                        Range(InFlightTask(p).dependencies) \subseteq done

\* C26 witness: a pass has executed qa and pm, passed over ba (its
\* dependency dev had not completed) and waits for dev
C26_Witness ==
    \E p \in DOMAIN runners :
        /\ runners[p].pc = "awaiting"
        /\ SortedRoles(p) = <<"qa", "pm", "ba", "dev">>
        /\ runners[p].completed_tasks = <<"qa", "pm">>
        /\ InFlightTask(p).agent_type = "dev"

\* C27: Within one pass every task of sorted_tasks is visited at most once
\* and handed to the executor at most once: the loop position never goes
\* back and every dispatch is at a later position than the one before,
\* completed_tasks only grows, by the task whose call has just returned, so
\* a task passed over is not executed later in the pass even when its
\* dependency completes afterwards; a failed call ends the pass and is not
\* repeated.
C27_VisitedAtMostOnce ==
    [][\A p \in DOMAIN runners :
          /\ runners'[p].i >= runners[p].i
          /\ Dispatches(p) => runners'[p].i > runners[p].i
          /\ runners'[p].completed_tasks # runners[p].completed_tasks =>
                /\ CallSucceeds(p)
                /\ runners'[p].completed_tasks
                        = Append(runners[p].completed_tasks, InFlightTask(p).agent_type)
                /\ InFlightTask(p).agent_type \notin Range(runners[p].completed_tasks)
          /\ CallFails(p) => runners'[p].pc = "failed" /\ runners'[p].i = runners[p].i
          /\ runners[p].pc \in {"failed", "completed"} => runners'[p] = runners[p]]_vars

\* C27 witness: a pass over qa, pm, ba, dev has returned; ba was passed
\* over, its dependency dev completed afterwards, and ba was not executed
C27_Witness ==
    \E p \in DOMAIN runners :
        /\ runners[p].pc = "completed"
        /\ SortedRoles(p) = <<"qa", "pm", "ba", "dev">>
        /\ runners[p].completed_tasks = <<"qa", "pm", "dev">>
        /\ TaskOf(runners[p].workflow, "ba").dependencies = <<"dev">>

\* C28: A pass that has gone through all of sorted_tasks without a failed
\* call and without finding PAUSED at the top of the loop sets status
\* COMPLETED, progress 100 and completed_at; and a record becomes COMPLETED
\* only in the step in which a pass holding it has gone through all of its
\* sorted_tasks.
C28_CompletedByFullPass ==
    [][/\ \A p \in DOMAIN runners :
            ( /\ runners'[p] # runners[p]
              /\ runners'[p].i = Len(runners'[p].sorted_tasks) + 1 )
                => /\ runners'[p].pc = "completed"
                   /\ heap'[runners'[p].workflow].status = COMPLETED
                   /\ heap'[runners'[p].workflow].progress = 100000
                   /\ heap'[runners'[p].workflow].completed_at = Now
       /\ \A w \in DOMAIN heap :
            (heap[w].status # COMPLETED /\ heap'[w].status = COMPLETED) =>
                \E p \in DOMAIN runners :
                    /\ runners'[p].workflow = w
                    /\ runners[p].pc \in {"scheduled", "awaiting"}
                    /\ ~CallFails(p)
                    /\ runners'[p].i = Len(runners'[p].sorted_tasks) + 1
                    /\ runners'[p].i > runners[p].i]_vars

\* C28 witness: a pass has executed pm and qa, the whole list, and has
\* returned; the record is COMPLETED with progress 100 and completed_at set
C28_Witness ==
    \E p \in DOMAIN runners :
        /\ runners[p].pc = "completed"
        /\ runners[p].completed_tasks = <<"pm", "qa">>
        /\ runners[p].i = 3
        /\ heap[runners[p].workflow].status = COMPLETED
        /\ heap[runners[p].workflow].progress = 100000
        /\ heap[runners[p].workflow].completed_at = Now

\* C29: When the event loop runs every scheduled pass and every executor
\* call returns or raises, every execute_workflow pass returns, and every
\* workflow of the store that is PENDING or IN_PROGRESS comes to status
\* COMPLETED, FAILED or PAUSED: none stays PENDING or IN_PROGRESS forever.
C29_EveryWorkflowSettles ==
    /\ <>[](\A p \in DOMAIN runners :
                runners[p].pc \in {"paused", "failed", "completed"})
    /\ \A workflow_id \in WorkflowIds :
            ( /\ workflow_id \in Keys(workflows)
              /\ Workflow(workflow_id).status \in {PENDING, IN_PROGRESS} ) ~>
            ( /\ workflow_id \in Keys(workflows)
              /\ Workflow(workflow_id).status \in {COMPLETED, FAILED, PAUSED} )

\* C29 witness: a workflow was paused and resumed; the first pass stopped
\* at the pause check, the pass launched by resume has returned, and the
\* workflow is COMPLETED or FAILED
C29_Witness ==
    \E p \in DOMAIN runners, q \in DOMAIN runners :
        /\ p < q
        /\ runners[p].workflow_id = runners[q].workflow_id
        /\ runners[p].pc = "paused"
        /\ runners[q].pc \in {"completed", "failed"}
        /\ Workflow(runners[q].workflow_id).status \in {COMPLETED, FAILED}

\* C30: A pass of workflow id w changes only records created under w and
\* the result log of w: in every step of the pass the store, the records of
\* other ids and the logs of other ids are unchanged, whether the pass goes
\* on, completes, pauses or fails; and the previous_results handed to the
\* executor are the results of the record the store holds under w.
C30_PassesAreIsolated ==
    [][\A p \in DOMAIN runners :
          runners'[p] # runners[p] =>
              /\ workflows' = workflows
              /\ \A w \in DOMAIN heap :
                    heap[w].workflow_id # runners[p].workflow_id
                        => heap'[w] = heap[w]
              /\ \A workflow_id \in DOMAIN agent_results :
                    workflow_id # runners[p].workflow_id
                        => agent_results'[workflow_id] = agent_results[workflow_id]
              /\ Dispatches(p) =>
                    /\ Workflow(runners[p].workflow_id).workflow_id
                            = runners[p].workflow_id
                    /\ runners'[p].request[1].context["previous_results"]
                            = heap'[Ref(workflows, runners[p].workflow_id)].results]_vars

\* C30 witness: pm has completed in one workflow; a pass of the other
\* workflow waits for the executor with empty previous_results, and the
\* other workflow's record has no results
C30_Witness ==
    \E p \in DOMAIN runners, other \in Keys(workflows) :
        /\ other # runners[p].workflow_id
        /\ DOMAIN Workflow(other).results = {"pm"}
        /\ Len(agent_results[other]) = 1
        /\ runners[p].pc = "awaiting"
        /\ runners[p].request[1].agent_type = "pm"
        /\ runners[p].request[1].context["previous_results"] = <<>>
        /\ Workflow(runners[p].workflow_id).results = <<>>
        /\ agent_results[runners[p].workflow_id] = <<>>

\* C31: At every dispatch the previous_results sent with the task are the
\* results of the workflow the pass is executing, as they are at that
\* moment: they are the results of the record the pass writes to, and they
\* hold every role the pass has completed before this dispatch.
C31_PreviousResultsCurrent ==
    [][\A p \in DOMAIN runners :
          Dispatches(p) =>
              LET previous_results ==
                      runners'[p].request[1].context["previous_results"]
              IN  /\ previous_results = heap'[runners'[p].workflow].results
                  /\ Range(runners'[p].completed_tasks)
                        \subseteq DOMAIN previous_results]_vars

\* C32: error_message is written only by a step that also sets the status
\* to FAILED: a record's error_message changes only in the step in which a
\* call of a pass holding the record fails, the status is FAILED after that
\* step and the message names the role of the failed task; create (which
\* builds a record without a message), pause, resume, a returned result, a
\* skipped task and the transition to COMPLETED leave it as it was.
C32_MessageOnlyOnFailure ==
    [][/\ \A w \in DOMAIN heap :
            heap'[w].error_message # heap[w].error_message =>
                /\ heap'[w].status = FAILED
                /\ \E p \in DOMAIN runners :
                        /\ runners[p].workflow = w
                        /\ CallFails(p)
                        /\ heap'[w].error_message
                                = <<"Task", InFlightTask(p).agent_type, "failed">>
       /\ \A p \in DOMAIN runners :
            CallFails(p) =>
                heap'[runners[p].workflow].error_message
                    = <<"Task", InFlightTask(p).agent_type, "failed">>
       /\ \A w \in DOMAIN heap' \ DOMAIN heap :
            heap'[w].error_message = NoMessage]_vars

\* C32 witness: the call for ba failed, the workflow was paused and
\* resumed, and pm has completed again in the resumed pass: the record
\* still carries the message naming ba
C32_Witness ==
    \E p \in DOMAIN runners, q \in DOMAIN runners :
        /\ p < q
        /\ runners[p].workflow = runners[q].workflow
        /\ runners[p].pc = "failed"
        /\ runners[p].i = 2
        /\ runners[q].completed_tasks = <<"pm">>
        /\ heap[runners[p].workflow].status = IN_PROGRESS
        /\ heap[runners[p].workflow].error_message = <<"Task", "ba", "failed">>

\* C33: The task list of a workflow is fixed at creation: no step changes
\* the number or the order of the tasks of a record, or the agent_type,
\* task text, dependencies or priority of a task; a task's context changes
\* only by gaining the key previous_results.
C33_TaskListFixed ==
    [][\A w \in DOMAIN heap :
          /\ Len(heap'[w].tasks) = Len(heap[w].tasks)
          /\ \A k \in DOMAIN heap[w].tasks :
                /\ heap'[w].tasks[k].agent_type = heap[w].tasks[k].agent_type
                /\ heap'[w].tasks[k].task = heap[w].tasks[k].task
                /\ heap'[w].tasks[k].dependencies = heap[w].tasks[k].dependencies
                /\ heap'[w].tasks[k].priority = heap[w].tasks[k].priority
                /\ DOMAIN heap'[w].tasks[k].context
                        \in {DOMAIN heap[w].tasks[k].context,
                             DOMAIN heap[w].tasks[k].context \cup {"previous_results"}}]_vars

\* C33 witness: a pass has sorted the list sent as ba, qa, dev, pm into
\* qa, pm, ba, dev and has returned; the record still lists ba, qa, dev,
\* pm, and the executed task pm has gained previous_results in its context
C33_Witness ==
    \E p \in DOMAIN runners :
        /\ runners[p].pc = "completed"
        /\ runners[p].sorted_tasks = <<2, 4, 1, 3>>
        /\ LET tasks == heap[runners[p].workflow].tasks
           IN  /\ tasks[1].agent_type = "ba" /\ tasks[1].context = <<>>
               /\ tasks[2].agent_type = "qa"
               /\ tasks[3].agent_type = "dev"
               /\ tasks[4].agent_type = "pm"
               /\ DOMAIN tasks[4].context = {"previous_results"}

\* C34: The tasks of the built-in SDLC workflow are sorted into the order
\* product_manager, business_analyst, software_developer, qa_engineer,
\* devops_engineer.  A pass executes them in this order without passing
\* over any, so a pass in which no call fails and which finds no pause has
\* executed all five; in the step in which it returns the workflow is
\* COMPLETED with five results and five log entries.
C34_SdlcRunsAllFive ==
    /\ [](\A p \in DOMAIN runners :
            runners[p].pc # "scheduled" =>
                /\ SortedRoles(p) = SdlcRoles
                /\ runners[p].completed_tasks
                        = SubSeq(SdlcRoles, 1, Len(runners[p].completed_tasks))
                /\ runners[p].pc \in {"awaiting", "paused", "failed"}
                        => runners[p].i = Len(runners[p].completed_tasks) + 1
                /\ runners[p].pc = "completed"
                        => /\ runners[p].completed_tasks = SdlcRoles
                           /\ DOMAIN heap[runners[p].workflow].results = Range(SdlcRoles)
                           /\ LogRoles(runners[p].workflow_id) = SdlcRoles)
    /\ [][\A p \in DOMAIN runners :
            (runners[p].pc # "completed" /\ runners'[p].pc = "completed")
                => /\ heap'[runners[p].workflow].status = COMPLETED
                   /\ Cardinality(DOMAIN heap'[runners[p].workflow].results) = 5]_vars

\* C34 witness: an SDLC workflow that was never paused has been run to the
\* end: COMPLETED, five results, the log in the order of the five roles
C34_Witness ==
    \E p \in DOMAIN runners :
        /\ runners[p].pc = "completed"
        /\ heap[runners[p].workflow].tasks[5].agent_type = "devops_engineer"
        /\ heap[runners[p].workflow].status = COMPLETED
        /\ heap[runners[p].workflow].progress = 100000
        /\ Cardinality(DOMAIN heap[runners[p].workflow].results) = 5
        /\ LogRoles(runners[p].workflow_id) = SdlcRoles

\* C35: For every entry of a workflow's task-result log, each role in the
\* dependencies of that entry's task has an entry earlier in the log.
C35_LogRespectsDependencies ==
    \A workflow_id \in DOMAIN agent_results :
        \A k \in DOMAIN agent_results[workflow_id] :
            LET w == Ref(workflows, workflow_id)
                task == TaskOf(w, LogRoles(workflow_id)[k])
            IN  \A dep \in Range(task.dependencies) :
                    \E j \in 1..(k - 1) : LogRoles(workflow_id)[j] = dep

\* C36: While the status of a stored workflow is PENDING no task has been
\* executed for it: its results are empty, its task-result log is empty
\* and its progress is 0.
C36_PendingUntouched ==
    \A workflow_id \in Keys(workflows) :
        Workflow(workflow_id).status = PENDING =>
            /\ Workflow(workflow_id).results = <<>>
            /\ agent_results[workflow_id] = <<>>
            /\ Workflow(workflow_id).progress = 0

\* C37: In every state the error_message of a stored workflow is set
\* exactly when its status is FAILED.
C37_MessageIffFailed ==
    \A workflow_id \in Keys(workflows) :
        Workflow(workflow_id).error_message # NoMessage
            <=> Workflow(workflow_id).status = FAILED

\* C38: In every state the completed_at of a stored workflow is set
\* exactly when its status is COMPLETED.
C38_CompletedAtIffCompleted ==
    \A workflow_id \in Keys(workflows) :
        Workflow(workflow_id).completed_at # None
            <=> Workflow(workflow_id).status = COMPLETED

\* the calls of request_logging_middleware that stand at a position
CallsAt(pc) == {r \in DOMAIN middleware_calls : middleware_calls[r].pc = pc}

\* C39: In the gateway's counters successful_requests + failed_requests
\* never exceeds total_requests, and the difference is the number of
\* requests in flight.  A request increments exactly one of the two
\* counters, by one, in the step in which it finishes, and no counter of
\* the two changes in any other step or for a finished request again.
C39_CountersBalance ==
    /\ [](/\ request_stats.successful_requests + request_stats.failed_requests
                <= request_stats.total_requests
          /\ request_stats.total_requests
                - (request_stats.successful_requests + request_stats.failed_requests)
                = Cardinality(CallsAt("call_next"))
          /\ request_stats.successful_requests = Cardinality(CallsAt("returned"))
          /\ request_stats.failed_requests = Cardinality(CallsAt("raised")))
    /\ [][LET finishing ==
                  {r \in DOMAIN middleware_calls :
                      /\ middleware_calls[r].pc = "call_next"
                      /\ middleware_calls'[r].pc # "call_next"}
              successful == request_stats'.successful_requests
                                - request_stats.successful_requests
              failed == request_stats'.failed_requests
                                - request_stats.failed_requests
          IN  /\ Cardinality(finishing) <= 1
              /\ successful + failed = Cardinality(finishing)
              /\ successful \in {0, 1} /\ failed \in {0, 1}
              /\ \A r \in DOMAIN middleware_calls :
                    middleware_calls[r].pc # "call_next"
                        => middleware_calls'[r] = middleware_calls[r]]_vars

\* C39 witness: of four requests one has been answered with 200, one with
\* 503, one has raised and one is still in flight
C39_Witness ==
    /\ request_stats.total_requests = 4
    /\ request_stats.successful_requests = 2
    /\ request_stats.failed_requests = 1
    /\ Cardinality(CallsAt("call_next")) = 1
    /\ \E r \in CallsAt("returned") : middleware_calls[r].status_code = 503
    /\ \E r \in CallsAt("returned") : middleware_calls[r].status_code = 200
====
